---- MODULE Spec2Model ----
(***************************************************************************)
(* clean_data of src/app.py (lines 71-109) as a state machine.             *)
(*                                                                         *)
(* A DataFrame is a heap object: a record of per-column dtype tags, per-   *)
(* column cell sequences and the row index labels.  clean_data works on    *)
(* a copy of the caller's frame, fills missing cells (mean for numeric     *)
(* columns, mode for the others), drops duplicate rows, and then tries to  *)
(* re-type object columns to a numeric or a datetime dtype.                *)
(*                                                                         *)
(* The pandas calls are modelled by what they do in pandas 1.x/2.x, where  *)
(* errors="ignore" hands the input back when a cell fails to parse.        *)
(***************************************************************************)
EXTENDS Integers, Sequences, FiniteSets, TLC

\* Bound of the model: the largest number of cells (rows * columns) of an
\* input table.
MaxCells == 4

----------------------------------------------------------------------------
(* Cells.  One record shape for every kind keeps cells comparable.         *)

\* NaN / None / NaT: the missing marker.
NA == [kind |-> "na", s |-> "", n |-> 0, d |-> 1]
\* A finite number, the rational n/d in lowest terms with d > 0.
Num(n, d) == [kind |-> "num", s |-> "", n |-> n, d |-> d]
\* +inf (sign = 1) and -inf (sign = -1): float values that are not missing.
Inf(sign) == [kind |-> "inf", s |-> "", n |-> sign, d |-> 1]
\* A Python str held by an object column.
Str(s) == [kind |-> "str", s |-> s, n |-> 0, d |-> 1]
\* A timezone-naive timestamp, as the day number YYYYMMDD.
Dt(n) == [kind |-> "dt", s |-> "", n |-> n, d |-> 1]

isna(c) == c.kind = "na"

\* The strings of the model, in lexicographic (code point) order.
TextOrder ==
    <<"1", "1.0", "2020", "2021-05-01", "2021-05-01T00:00+01:00", "abc">>
Texts == {TextOrder[i] : i \in DOMAIN TextOrder}
StrRank(s) == CHOOSE i \in DOMAIN TextOrder : TextOrder[i] = s

\* The days of the model's datetime64 input columns.
Days == {20200101, 20210501}

\* The cells an input column of each dtype can hold.  An int64 column has
\* no missing marker; a float64 column holds NaN and the infinities.
CellsOf(dtype) ==
    CASE dtype = "int64" -> {Num(1, 1), Num(2, 1)}
      [] dtype = "float64" -> {NA, Num(1, 1), Num(2, 1), Inf(1), Inf(-1)}
      [] dtype = "object" -> {NA} \cup {Str(s) : s \in Texts}
      [] dtype = "datetime64" -> {NA} \cup {Dt(n) : n \in Days}

InputDtypes == {"int64", "float64", "object", "datetime64"}

----------------------------------------------------------------------------
(* Tables.                                                                 *)

ColNames == <<"a", "b">>

Columns(t) == DOMAIN t.dtype
NRows(t) == Len(t.index)
Row(t, i) == [c \in Columns(t) |-> t.data[c][i]]

\* RangeIndex(n): the labels 0 .. n-1.
RangeIndex(n) == [i \in 1..n |-> i - 1]

\* The input columns of n rows.
InputColumns(n) ==
    UNION {{[dtype |-> dt, cells |-> cs] : cs \in [1..n -> CellsOf(dt)]} :
           dt \in InputDtypes}

\* The shapes of the input tables: 1 or 2 columns, and as many rows as
\* the cell budget allows (an empty table included).
InputShapes ==
    UNION {{[k |-> k, n |-> n] : n \in 0..(MaxCells \div k)} :
           k \in DOMAIN ColNames}

\* An input table as the parsing layer hands it over: the columns f, of
\* n rows each, under a RangeIndex.
InputTable(f, n) ==
    [dtype |-> [c \in DOMAIN f |-> f[c].dtype],
     data  |-> [c \in DOMAIN f |-> f[c].cells],
     index |-> RangeIndex(n)]

----------------------------------------------------------------------------
(* Column classification (lines 76-77).                                    *)

\* np.number covers the integer and floating dtypes, nothing else.
is_number(dtype) == dtype \in {"int64", "float64"}

select_dtypes_include_number(t) == {c \in Columns(t) : is_number(t.dtype[c])}
select_dtypes_exclude_number(t) == {c \in Columns(t) : ~is_number(t.dtype[c])}

----------------------------------------------------------------------------
(* Series.isna().any(), Series.fillna (lines 81-82, 86, 89).               *)

isna_any(cells) == \E i \in DOMAIN cells : isna(cells[i])

\* fillna(value): every missing cell takes the value, the others stay.
\* Filling with NaN leaves the missing cells missing.
fillna(cells, value) ==
    [i \in DOMAIN cells |-> IF isna(cells[i]) THEN value ELSE cells[i]]

----------------------------------------------------------------------------
(* Series.mean() (line 82): sum of the non-missing cells over their count, *)
(* in floating point: inf + -inf is NaN, and so is the mean of no cells.   *)

RECURSIVE Gcd(_, _)
Gcd(x, y) == IF y = 0 THEN x ELSE Gcd(y, x % y)

Abs(x) == IF x < 0 THEN -x ELSE x

\* The rational n/d (d > 0) in lowest terms.
Rational(n, d) ==
    LET g == Gcd(Abs(n), d) IN Num(n \div g, d \div g)

AddQ(x, y) == Rational(x.n * y.d + y.n * x.d, x.d * y.d)

RECURSIVE SumQ(_)
SumQ(cells) ==
    IF cells = <<>> THEN Num(0, 1)
    ELSE AddQ(Head(cells), SumQ(Tail(cells)))

\* The non-missing cells, in order (skipna).
dropna(cells) == SelectSeq(cells, LAMBDA c : ~isna(c))

\* sum / count over a non-empty sequence of non-missing cells.
SumOverCount(vals) ==
    LET pos == \E i \in DOMAIN vals : vals[i] = Inf(1)
        neg == \E i \in DOMAIN vals : vals[i] = Inf(-1)
        total == SumQ(vals)
    IN  IF pos /\ neg THEN NA
        ELSE IF pos THEN Inf(1)
        ELSE IF neg THEN Inf(-1)
        ELSE Rational(total.n, total.d * Len(vals))

\* A mean that makes up 0 for a column with no values.
meanZeroOfNothing(cells) ==
    IF dropna(cells) = <<>> THEN Num(0, 1) ELSE SumOverCount(dropna(cells))

\* A mean that counts the missing cells too.
meanOverAllCells(cells) ==
    LET vals == dropna(cells)
        m == SumOverCount(vals)
    IN  IF vals = <<>> THEN NA
        ELSE IF m.kind = "num" THEN Rational(m.n * Len(vals), m.d * Len(cells))
        ELSE m

mean(cells) ==
    IF dropna(cells) = <<>> THEN NA ELSE SumOverCount(dropna(cells))

----------------------------------------------------------------------------
(* Series.mode() (line 87): the most frequent non-missing values, sorted   *)
(* ascending; empty when every cell is missing.                            *)

Count(cells, v) == Cardinality({i \in DOMAIN cells : cells[i] = v})

\* The order pandas sorts the modes by: strings by code point, timestamps
\* by time.
CellLess(x, y) ==
    IF x.kind = "str" /\ y.kind = "str" THEN StrRank(x.s) < StrRank(y.s)
    ELSE x.n * y.d < y.n * x.d

Least(S) == CHOOSE x \in S : \A y \in S : x = y \/ CellLess(x, y)

RECURSIVE SortSet(_)
SortSet(S) ==
    IF S = {} THEN <<>> ELSE <<Least(S)>> \o SortSet(S \ {Least(S)})

\* The values that occur most often among the non-missing cells.
MostFrequent(cells) ==
    LET vals == dropna(cells)
        V == {vals[i] : i \in DOMAIN vals}
    IN  {v \in V : \A w \in V : Count(vals, w) <= Count(vals, v)}

\* The distinct values of a set in their order of first appearance.
ByFirstAppearance(cells, S) ==
    LET vals == SelectSeq(cells, LAMBDA c : c \in S)
        firsts == {i \in DOMAIN vals : \A j \in 1..(i - 1) : vals[j] # vals[i]}
    IN  SelectSeq([i \in DOMAIN vals |-> IF i \in firsts THEN vals[i] ELSE NA],
                  LAMBDA c : ~isna(c))

modeUnsorted(cells) == ByFirstAppearance(cells, MostFrequent(cells))

mode(cells) == SortSet(MostFrequent(cells))

----------------------------------------------------------------------------
(* DataFrame.drop_duplicates().reset_index(drop=True) (line 92).           *)

\* duplicated(keep="first"): row i repeats an earlier row.  Missing cells
\* compare equal to missing cells here.
duplicatedKeepLast(t, i) ==
    \E j \in (i + 1)..NRows(t) : Row(t, j) = Row(t, i)

duplicated(t, i) == \E j \in 1..(i - 1) : Row(t, j) = Row(t, i)

\* The positions of a set, ascending.
RECURSIVE Ascending(_)
Ascending(S) ==
    IF S = {} THEN <<>>
    ELSE LET m == CHOOSE x \in S : \A y \in S : y <= x
         IN  Append(Ascending(S \ {m}), m)

\* Boolean indexing: the rows at the given positions, with their labels.
take(t, pos) ==
    [dtype |-> t.dtype,
     data  |-> [c \in Columns(t) |-> [k \in DOMAIN pos |-> t.data[c][pos[k]]]],
     index |-> [k \in DOMAIN pos |-> t.index[pos[k]]]]

drop_duplicates(t) ==
    take(t, Ascending({i \in 1..NRows(t) : ~duplicated(t, i)}))

\* reset_index(drop=True): the labels become 0 .. n-1.
reset_index(t) == [t EXCEPT !.index = RangeIndex(NRows(t))]

----------------------------------------------------------------------------
(* pd.to_numeric(series, errors="ignore") (line 99).                       *)

\* What the numeric parser makes of one cell: a str that spells a number
\* parses to it, a missing cell to NaN, a number to itself.
ParsesAsNumber(c) ==
    \/ c.kind \in {"na", "num", "inf"}
    \/ c.kind = "str" /\ c.s \in {"1", "1.0", "2020"}

ParsedNumber(c) ==
    CASE c.kind = "str" /\ c.s = "1" -> Num(1, 1)
      [] c.kind = "str" /\ c.s = "1.0" -> Num(1, 1)
      [] c.kind = "str" /\ c.s = "2020" -> Num(2020, 1)
      [] OTHER -> c

\* A cell that forces float64: NaN, or a str spelt with a decimal point.
NeedsFloat(c) ==
    c.kind \in {"na", "inf"} \/ (c.kind = "str" /\ c.s = "1.0") \/
    (c.kind = "num" /\ c.d # 1)

\* errors="coerce": every cell on its own, failures become NaN.
to_numeric_coerce(cells) ==
    [dtype |-> "float64",
     cells |-> [i \in DOMAIN cells |->
                  IF ParsesAsNumber(cells[i]) THEN ParsedNumber(cells[i])
                  ELSE NA]]

\* errors="ignore": all cells parse, or the input comes back as it is.
to_numeric(cells) ==
    IF \A i \in DOMAIN cells : ParsesAsNumber(cells[i])
    THEN [dtype |-> IF \E i \in DOMAIN cells : NeedsFloat(cells[i])
                    THEN "float64" ELSE "int64",
          cells |-> [i \in DOMAIN cells |-> ParsedNumber(cells[i])]]
    ELSE [dtype |-> "object", cells |-> cells]

----------------------------------------------------------------------------
(* pd.to_datetime(series, errors="ignore", infer_datetime_format=True)     *)
(* (line 105).  The format is guessed once, from the first non-missing     *)
(* cell, and every other cell has to match it.                             *)

TzText == "2021-05-01T00:00+01:00"

guess_datetime_format(c) ==
    CASE c.kind = "str" /\ c.s = "2020" -> "%Y"
      [] c.kind = "str" /\ c.s = "2021-05-01" -> "%Y-%m-%d"
      [] c.kind = "str" /\ c.s = TzText -> "%Y-%m-%dT%H:%M%z"
      [] c.kind = "dt" -> "datetime"
      [] OTHER -> "none"

ParsedDate(c) ==
    CASE c.kind = "str" /\ c.s = "2020" -> Dt(20200101)
      [] c.kind = "str" /\ c.s = "2021-05-01" -> Dt(20210501)
      [] c.kind = "str" /\ c.s = TzText -> Dt(20210430)
      [] OTHER -> c

to_datetime(cells) ==
    LET vals == dropna(cells)
        fmt == IF vals = <<>> THEN "none" ELSE guess_datetime_format(vals[1])
        ok == \A i \in DOMAIN vals : /\ guess_datetime_format(vals[i]) = fmt
                                      /\ fmt # "none"
    IN  IF ok
        THEN [dtype |-> IF fmt = "%Y-%m-%dT%H:%M%z" THEN "datetime64tz"
                        ELSE "datetime64",
              cells |-> [i \in DOMAIN cells |-> ParsedDate(cells[i])]]
        ELSE [dtype |-> "object", cells |-> cells]

----------------------------------------------------------------------------
(* The dtype conversion of one object column (lines 97-107).               *)

\* The two attempts in the other order.
convert_datetime_first(cells) ==
    LET converted_dt == to_datetime(cells)
        converted_num == to_numeric(cells)
    IN  IF ~(converted_dt.dtype = "datetime64tz" \/ converted_dt.dtype = "object")
        THEN converted_dt
        ELSE IF ~(converted_num.dtype = "object") THEN converted_num
        ELSE [dtype |-> "object", cells |-> cells]

convert_object_column(cells) ==
    LET converted_num == to_numeric(cells)
        converted_dt == to_datetime(cells)
    IN  IF ~(converted_num.dtype = "object") THEN converted_num
        ELSE IF ~(converted_dt.dtype = "datetime64tz" \/ converted_dt.dtype = "object")
        THEN converted_dt
        ELSE [dtype |-> "object", cells |-> cells]

\* The loop of lines 95-107 over every column of the frame.
convert_dtypes(t) ==
    LET conv(c) == IF t.dtype[c] = "object"
                   THEN convert_object_column(t.data[c])
                   ELSE [dtype |-> t.dtype[c], cells |-> t.data[c]]
    IN  [dtype |-> [c \in Columns(t) |-> conv(c).dtype],
         data  |-> [c \in Columns(t) |-> conv(c).cells],
         index |-> t.index]
----------------------------------------------------------------------------
(* The heap of DataFrame objects.  A name holds a reference; an in-place   *)
(* column assignment (df_clean[col] = ...) changes the object, and so is   *)
(* seen through every name that refers to it.                              *)

Refs == {"o1", "o2", "o3", "o4", "o5"}
NoRef == "none"
NewRef(h) == CHOOSE r \in Refs \ DOMAIN h : TRUE

\* A new object holding table t: the heap with it, and its reference.
new_object(h, t) == [heap |-> h @@ (NewRef(h) :> t), ref |-> NewRef(h)]

\* No copy: the same object under a second name.
same_object(h, r) == [heap |-> h, ref |-> r]

\* DataFrame.copy() (deep, the default): a new object with equal contents.
DataFrame_copy(h, r) == new_object(h, h[r])

\* The loop of lines 80-82 on the frame's numeric columns.
fill_numeric(t, cols) ==
    [t EXCEPT !.data =
        [c \in Columns(t) |->
            IF c \in cols /\ isna_any(t.data[c])
            THEN fillna(t.data[c], mean(t.data[c]))
            ELSE t.data[c]]]

\* The loop of lines 85-89 on the other columns.
fill_categorical(t, cols) ==
    [t EXCEPT !.data =
        [c \in Columns(t) |->
            IF c \in cols /\ isna_any(t.data[c])
            THEN LET mode_vals == mode(t.data[c])
                 IN  IF mode_vals # <<>> THEN fillna(t.data[c], mode_vals[1])
                     ELSE t.data[c]
            ELSE t.data[c]]]

----------------------------------------------------------------------------
(* State.                                                                  *)

VARIABLES
    heap,              \* reference -> DataFrame
    df,                \* the caller's frame, the argument of clean_data
    df_clean,          \* clean_data's working frame
    numeric_cols,      \* line 76
    categorical_cols,  \* line 77
    result,            \* what the last call returned (session cleaned_df)
    pc,                \* position in clean_data
    phase,             \* "first" call, called "again", or "reclean"
    orig,              \* history: the argument's contents at the call
    pre,               \* history: the working frame before the last stage
    first              \* history: the contents returned by the first call

vars == <<heap, df, df_clean, numeric_cols, categorical_cols, result, pc,
          phase, orig, pre, first>>

Init ==
    \E shape \in InputShapes :
      \E f \in [{ColNames[j] : j \in 1..shape.k} -> InputColumns(shape.n)] :
        /\ heap = ("o1" :> InputTable(f, shape.n))
        /\ df = "o1"
        /\ df_clean = NoRef
        /\ numeric_cols = {}
        /\ categorical_cols = {}
        /\ result = NoRef
        /\ pc = "idle"
        /\ phase = "first"
        /\ orig = InputTable(f, shape.n)
        /\ pre = InputTable(f, shape.n)
        /\ first = InputTable(f, shape.n)

\* Lines 73-77: copy the argument, classify the copy's columns.
Start ==
    /\ pc = "idle"
    /\ LET c == DataFrame_copy(heap, df)
       IN  /\ heap' = c.heap
           /\ df_clean' = c.ref
           /\ numeric_cols' = select_dtypes_include_number(c.heap[c.ref])
           /\ categorical_cols' = select_dtypes_exclude_number(c.heap[c.ref])
    /\ pre' = heap[df]
    /\ pc' = "copied"
    /\ UNCHANGED <<df, result, phase, orig, first>>

\* Lines 80-82.
FillNumeric ==
    /\ pc = "copied"
    /\ pre' = heap[df_clean]
    /\ heap' = [heap EXCEPT ![df_clean] = fill_numeric(@, numeric_cols)]
    /\ pc' = "num_filled"
    /\ UNCHANGED <<df, df_clean, numeric_cols, categorical_cols, result,
                   phase, orig, first>>

\* Lines 85-89.
FillCategorical ==
    /\ pc = "num_filled"
    /\ pre' = heap[df_clean]
    /\ heap' = [heap EXCEPT ![df_clean] = fill_categorical(@, categorical_cols)]
    /\ pc' = "cat_filled"
    /\ UNCHANGED <<df, df_clean, numeric_cols, categorical_cols, result,
                   phase, orig, first>>

\* Line 92: df_clean is rebound to a new frame.
DropDuplicates ==
    /\ pc = "cat_filled"
    /\ pre' = heap[df_clean]
    /\ LET o == new_object(heap, reset_index(drop_duplicates(heap[df_clean])))
       IN  heap' = o.heap /\ df_clean' = o.ref
    /\ pc' = "deduped"
    /\ UNCHANGED <<df, numeric_cols, categorical_cols, result, phase, orig,
                   first>>

\* Lines 95-107: columns are assigned in place.
ConvertDtypes ==
    /\ pc = "deduped"
    /\ pre' = heap[df_clean]
    /\ heap' = [heap EXCEPT ![df_clean] = convert_dtypes(@)]
    /\ pc' = "converted"
    /\ UNCHANGED <<df, df_clean, numeric_cols, categorical_cols, result,
                   phase, orig, first>>

\* Line 109.
Return ==
    /\ pc = "converted"
    /\ result' = df_clean
    /\ pc' = "returned"
    /\ UNCHANGED <<heap, df, df_clean, numeric_cols, categorical_cols, phase,
                   orig, pre, first>>

\* Line 217 once more: the caller cleans the same frame again.
CleanAgain ==
    /\ pc = "returned" /\ phase = "first"
    /\ first' = heap[result]
    /\ phase' = "again"
    /\ pc' = "idle"
    /\ UNCHANGED <<heap, df, df_clean, numeric_cols, categorical_cols, result,
                   orig, pre>>

\* The caller cleans the frame clean_data returned.
Reclean ==
    /\ pc = "returned" /\ phase = "first"
    /\ first' = heap[result]
    /\ df' = result
    /\ orig' = heap[result]
    /\ phase' = "reclean"
    /\ pc' = "idle"
    /\ UNCHANGED <<heap, df_clean, numeric_cols, categorical_cols, result, pre>>

\* The caller overwrites a column of the returned frame.
MutateResult ==
    /\ pc = "returned"
    /\ \E c \in Columns(heap[result]) :
           heap' = [heap EXCEPT ![result].data[c] =
                       [i \in DOMAIN @ |-> Str("abc")]]
    /\ pc' = "mutated"
    /\ UNCHANGED <<df, df_clean, numeric_cols, categorical_cols, result, phase,
                   orig, pre, first>>

Next ==
    \/ Start
    \/ FillNumeric
    \/ FillCategorical
    \/ DropDuplicates
    \/ ConvertDtypes
    \/ Return
    \/ CleanAgain
    \/ Reclean
    \/ MutateResult

Spec == Init /\ [][Next]_vars
----------------------------------------------------------------------------
(* Properties.                                                             *)

\* The working frame and the returned frame.
Cur == heap[df_clean]
Out == heap[result]

HasMissing(cells) == \E i \in DOMAIN cells : isna(cells[i])
HasValue(cells) == \E i \in DOMAIN cells : ~isna(cells[i])
AllMissing(cells) == \A i \in DOMAIN cells : isna(cells[i])
OpposedInfinities(cells) ==
    /\ \E i \in DOMAIN cells : cells[i] = Inf(1)
    /\ \E i \in DOMAIN cells : cells[i] = Inf(-1)

\* C1: in the returned table every column that had a non-missing cell on
\* input has no missing cell.
C1_NoMissingLeft ==
    pc = "returned" =>
        \A c \in Columns(orig) :
            HasValue(orig.data[c]) => ~HasMissing(Out.data[c])

\* C1, the part that holds: the same, for the columns that do not hold
\* both +inf and -inf.
C1_NoMissingLeftUnlessOpposedInfinities ==
    pc = "returned" =>
        \A c \in Columns(orig) :
            HasValue(orig.data[c]) /\ ~OpposedInfinities(orig.data[c])
                => ~HasMissing(Out.data[c])

\* C2: cleaning the table that clean_data returned gives that table back:
\* same rows, order, cells, labels and dtypes.
C2_Idempotent ==
    (pc = "returned" /\ phase = "reclean") => Out = first

NoEqualRows(t) ==
    \A i, j \in 1..NRows(t) : i < j => Row(t, i) # Row(t, j)

\* C2, the part that holds: the same, when the table returned first has no
\* two equal rows.
C2_IdempotentWithoutEqualRows ==
    (pc = "returned" /\ phase = "reclean" /\ NoEqualRows(first)) => Out = first

\* C10: the returned table has no two rows equal in every column.
C10_NoEqualRowsReturned ==
    pc = "returned" => NoEqualRows(Out)

\* The rows of t that repeat no earlier row.
FirstOccurrences(t) ==
    {i \in 1..NRows(t) : \A j \in 1..(i - 1) : Row(t, j) # Row(t, i)}

\* C3: duplicate removal keeps exactly the first occurrences of the rows of
\* the table after imputation, whole, in their order, under labels 0..n-1.
C3_FirstOccurrenceFilter ==
    pc = "deduped" =>
        LET kept == FirstOccurrences(pre)
        IN  /\ Columns(Cur) = Columns(pre)
            /\ Cur.dtype = pre.dtype
            /\ NRows(Cur) = Cardinality(kept)
            /\ \A c \in Columns(Cur) : Len(Cur.data[c]) = NRows(Cur)
            /\ \A i \in kept :
                   Row(Cur, Cardinality({j \in kept : j <= i})) = Row(pre, i)
            /\ \A k \in 1..NRows(Cur) : Cur.index[k] = k - 1

\* C3 witness: a table of three or more rows lost a row that repeated an
\* earlier, non-adjacent row, and kept two or more.
C3_Witness ==
    /\ pc = "deduped"
    /\ NRows(Cur) >= 2
    /\ \E i, j \in 1..NRows(pre) :
           i + 1 < j /\ Row(pre, i) = Row(pre, j) /\ Row(pre, i) # Row(pre, i + 1)

\* The columns the mode imputation is about: classified non-numeric, with
\* a missing and a non-missing cell before the stage.
ModeFilled(c) ==
    /\ c \in categorical_cols
    /\ HasMissing(pre.data[c])
    /\ HasValue(pre.data[c])

Occurrences(cells, v) == Cardinality({i \in DOMAIN cells : cells[i] = v})

\* The non-missing values of a column that no other value outnumbers.
Tied(cells) ==
    {v \in {cells[i] : i \in DOMAIN cells} :
        /\ ~isna(v)
        /\ \A i \in DOMAIN cells :
               isna(cells[i]) \/
               Occurrences(cells, cells[i]) <= Occurrences(cells, v)}

FirstIndex(cells, v) ==
    CHOOSE i \in DOMAIN cells :
        cells[i] = v /\ \A j \in 1..(i - 1) : cells[j] # v

\* C4 as stated: the missing cells take the most frequent value, on a tie
\* the tied value that appears first in the column; the rest stays.
C4_FirstAppearingMode ==
    pc = "cat_filled" =>
        \A c \in Columns(pre) : ModeFilled(c) =>
            \A i \in DOMAIN pre.data[c] :
                IF isna(pre.data[c][i])
                THEN /\ Cur.data[c][i] \in Tied(pre.data[c])
                     /\ \A w \in Tied(pre.data[c]) :
                            FirstIndex(pre.data[c], Cur.data[c][i])
                                <= FirstIndex(pre.data[c], w)
                ELSE Cur.data[c][i] = pre.data[c][i]

\* C4 amended: the missing cells take the most frequent value, on a tie
\* the least of the tied values in sort order; the rest stays.
C4_LeastMode ==
    pc = "cat_filled" =>
        \A c \in Columns(pre) : ModeFilled(c) =>
            \A i \in DOMAIN pre.data[c] :
                IF isna(pre.data[c][i])
                THEN /\ Cur.data[c][i] \in Tied(pre.data[c])
                     /\ \A w \in Tied(pre.data[c]) :
                            Cur.data[c][i] = w \/ CellLess(Cur.data[c][i], w)
                ELSE Cur.data[c][i] = pre.data[c][i]

\* C4 witness: a textual column with a missing cell and two tied values,
\* the greater of which appears first, has been filled.
C4_Witness ==
    /\ pc = "cat_filled"
    /\ \E c \in Columns(pre) :
           /\ ModeFilled(c)
           /\ pre.dtype[c] = "object"
           /\ \E v, w \in Tied(pre.data[c]) :
                  /\ CellLess(v, w)
                  /\ FirstIndex(pre.data[c], w) < FirstIndex(pre.data[c], v)
           /\ ~HasMissing(Cur.data[c])

\* The columns the mean imputation is about: classified numeric, with a
\* missing and a non-missing cell before the stage.
MeanFilled(c) ==
    /\ c \in numeric_cols
    /\ HasMissing(pre.data[c])
    /\ HasValue(pre.data[c])

AllFinite(cells) == \A i \in DOMAIN cells : cells[i].kind \in {"na", "num"}

\* v is sum / count of the finite non-missing cells: v * count = sum, with
\* both sides brought to the common denominator v.d * product of the d's.
RECURSIVE DenProduct(_)
DenProduct(vals) ==
    IF vals = <<>> THEN 1 ELSE Head(vals).d * DenProduct(Tail(vals))

RECURSIVE ScaledSum(_, _)
ScaledSum(vals, den) ==
    IF vals = <<>> THEN 0
    ELSE Head(vals).n * (den \div Head(vals).d) + ScaledSum(Tail(vals), den)

IsMeanOf(v, cells) ==
    LET vals == SelectSeq(cells, LAMBDA x : x.kind = "num")
        den == DenProduct(vals)
    IN  /\ v.kind = "num"
        /\ v.d > 0
        /\ v.n * Len(vals) * den = v.d * ScaledSum(vals, den)

\* v is what sum / count gives in floating point: the mean of finite
\* cells; +inf or -inf when one of them occurs; NaN when both do, since
\* inf + -inf is NaN.
IsFloatMeanOf(v, cells) ==
    LET pos == \E i \in DOMAIN cells : cells[i] = Inf(1)
        neg == \E i \in DOMAIN cells : cells[i] = Inf(-1)
    IN  CASE pos /\ neg -> isna(v)
          [] pos /\ ~neg -> v = Inf(1)
          [] neg /\ ~pos -> v = Inf(-1)
          [] OTHER -> IsMeanOf(v, cells)

AllParseAsNumbers(cells) ==
    \A i \in DOMAIN cells : isna(cells[i]) \/ ParsesAsNumber(cells[i])

\* C6: an object column becomes numeric exactly when every non-missing
\* cell parses as a number; then each cell holds its parsed value and the
\* missing cells stay missing; otherwise the numeric attempt changes no
\* cell: the column is as it was, or the datetime attempt re-typed it.
C6_NumericAllOrNothing ==
    pc = "converted" =>
        \A c \in Columns(pre) : pre.dtype[c] = "object" =>
            /\ is_number(Cur.dtype[c]) <=> AllParseAsNumbers(pre.data[c])
            /\ AllParseAsNumbers(pre.data[c]) =>
                   \A i \in DOMAIN pre.data[c] :
                       Cur.data[c][i] =
                           IF isna(pre.data[c][i]) THEN NA
                           ELSE ParsedNumber(pre.data[c][i])
            /\ ~AllParseAsNumbers(pre.data[c]) =>
                   \/ /\ Cur.dtype[c] = "object"
                      /\ Cur.data[c] = pre.data[c]
                   \/ /\ Cur.dtype[c] = "datetime64"
                      /\ \A i \in DOMAIN Cur.data[c] :
                             Cur.data[c][i].kind \in {"dt", "na"}

\* C6 witness: of two object columns, one whose cells all parse became
\* numeric and one with a single unparseable cell stayed as it was.
C6_Witness ==
    /\ pc = "converted"
    /\ \E b, c \in Columns(pre) :
           /\ pre.dtype[b] = "object" /\ pre.dtype[c] = "object"
           /\ HasValue(pre.data[b]) /\ AllParseAsNumbers(pre.data[b])
           /\ is_number(Cur.dtype[b])
           /\ \E i, j \in DOMAIN pre.data[c] :
                  /\ pre.data[c][i].kind = "str" /\ ParsesAsNumber(pre.data[c][i])
                  /\ pre.data[c][j].kind = "str" /\ ~ParsesAsNumber(pre.data[c][j])
           /\ Cur.dtype[c] = "object" /\ Cur.data[c] = pre.data[c]

\* A cell spells a date.
ParsesAsDate(c) == c.kind = "str" /\ guess_datetime_format(c) # "none"

\* C7: a column that is not textual keeps its dtype and cells; a textual
\* column whose cells all parse as numbers ends numeric, also when they
\* parse as dates too; a textual column ends temporal only when the
\* numeric attempt did not convert it.
C7_NumericBeforeTemporal ==
    pc = "converted" =>
        \A c \in Columns(pre) :
            /\ pre.dtype[c] # "object" =>
                   Cur.dtype[c] = pre.dtype[c] /\ Cur.data[c] = pre.data[c]
            /\ (pre.dtype[c] = "object" /\ AllParseAsNumbers(pre.data[c])) =>
                   is_number(Cur.dtype[c])
            /\ (pre.dtype[c] = "object" /\ Cur.dtype[c] = "datetime64") =>
                   ~AllParseAsNumbers(pre.data[c])

\* C7 witness: a textual column whose cells all parse both as numbers and
\* as dates ended numeric, beside a datetime column that kept its dtype.
C7_Witness ==
    /\ pc = "converted"
    /\ \E b, c \in Columns(pre) :
           /\ pre.dtype[c] = "object"
           /\ HasValue(pre.data[c])
           /\ \A i \in DOMAIN pre.data[c] :
                  ParsesAsNumber(pre.data[c][i]) /\ ParsesAsDate(pre.data[c][i])
           /\ is_number(Cur.dtype[c])
           /\ pre.dtype[b] = "datetime64" /\ Cur.dtype[b] = "datetime64"

\* C8: a column whose cells are all missing at the call is all missing
\* after each imputation stage, numeric or not.
C8_AllMissingStays ==
    pc \in {"num_filled", "cat_filled"} =>
        \A c \in Columns(orig) :
            AllMissing(orig.data[c]) =>
                /\ Len(Cur.data[c]) = Len(orig.data[c])
                /\ AllMissing(Cur.data[c])

\* C8 witness: both imputations have run on a table with an all-missing
\* numeric column and an all-missing non-numeric one.
C8_Witness ==
    /\ pc = "cat_filled"
    /\ NRows(orig) >= 1
    /\ \E b \in numeric_cols : AllMissing(orig.data[b])
    /\ \E c \in categorical_cols : AllMissing(orig.data[c])

\* C9: the caller's frame holds what it held at the call, at every step of
\* clean_data, after every call, and after the caller changes the returned
\* frame.
C9_InputUntouched == heap[df] = orig

\* C9 witness: after a second call on the same frame, where cleaning
\* changed cells, the caller has overwritten the returned frame.
C9_Witness ==
    /\ pc = "mutated"
    /\ phase = "again"
    /\ first.data # orig.data
    /\ Out # first
====
